---- MODULE Spec2Model ----
(***************************************************************************)
(* A model of tilemaker's OSMObject (include/osm_object.h): the single     *)
(* per-feature processing context handed to the Lua callbacks.             *)
(*                                                                         *)
(* The inline members of the header (setNode, setWay, setRelation, reset,  *)
(* setLocation, the newWayID initialiser) are translated from their code.  *)
(* The members the header only declares (Holds, Find, linestring, ...,     *)
(* FindIntersecting, Layer, ...) are defined in osm_object.cpp, which is   *)
(* not part of the sources at hand; they are modelled from the written     *)
(* specification and marked so in the map of definitions.                  *)
(***************************************************************************)
EXTENDS Integers, Sequences, FiniteSets, TLC

VARIABLES
    \* ---- OSMObject data members (osm_object.h:43-82)
    indices,                \* layer name -> entries [box, id] of its spatial index
    cachedGeometries,       \* geometry of each indexed shape, by id (from 0)
    cachedGeometryNames,    \* id -> name
    osmStore,               \* [nodes: node id -> <<latp, lon>>, ways: way id -> node ids]
    osmID, newWayID, isWay, isRelation,
    lon1, latp1, lon2, latp2,
    nodeVec, outerWayVec, innerWayVec,
    linestringCache, linestringInited,
    polygonCache, polygonInited,
    multiPolygonCache, multiPolygonInited,
    layers, layerMap, layerOrder,
    outputs,
    stringTable, tagMap,
    denseStart, denseEnd, densePtr,
    keysPtr, valsPtr, tagLength,
    \* ---- observation of the last call (not program state)
    call,                   \* name of the member function called last
    thrown,                 \* the exception it left with, or NoThrow
    ret,                    \* the value it returned, or NoRet; a call that names a
                            \* key or a layer shows it as [key, value]
    relIds,                 \* ids given to relations so far, oldest first
    wayIds,                 \* ids of the genuine ways passed to setWay so far
    curRefs,                \* what the current feature's begin call was given
    before,                 \* what reset() found when the last call ran it
    begun,                  \* begin calls so far, counted up to MaxFeatures
    registered,             \* what addLayer was called with so far, oldest first
    recorded                \* what setVectorLayerMetadata was called with so far

vars == <<indices, cachedGeometries, cachedGeometryNames, osmStore, osmID, newWayID, isWay, isRelation, lon1, latp1, lon2, latp2,
          nodeVec, outerWayVec, innerWayVec, linestringCache, linestringInited,
          polygonCache, polygonInited, multiPolygonCache, multiPolygonInited,
          layers, layerMap, layerOrder, outputs, stringTable, tagMap,
          denseStart, denseEnd, densePtr, keysPtr, valsPtr, tagLength,
          call, thrown, ret, relIds, wayIds, curRefs, before, begun,
          registered, recorded>>

spatialVars  == <<indices, cachedGeometries, cachedGeometryNames>>
identityVars == <<osmID, isWay, isRelation>>
locationVars == <<lon1, latp1, lon2, latp2>>
cacheVars    == <<linestringCache, polygonCache, multiPolygonCache>>
initedVars   == <<linestringInited, polygonInited, multiPolygonInited>>
registryVars == <<layers, layerMap, layerOrder>>
tableVars    == <<stringTable, tagMap>>
denseVars    == <<denseStart, denseEnd, densePtr>>
tabularVars  == <<keysPtr, valsPtr, tagLength>>
historyVars  == <<relIds, wayIds, begun, registered, recorded>>

----------------------------------------------------------------------------
(* Bounds of the model and (scaled) program constants.                     *)

\* WayID is an unsigned integer type and MAX_WAY_ID its largest value
\* (osm_store.h); the model keeps the wrap-around arithmetic at a small width.
MAX_WAY_ID == 7

\* Node ids that ways may reference and the store may hold.
MaxNode == 2
\* Longest node list of a way.
MaxRefs == 3
\* Most setRelation calls followed in one run of the id specification.
MaxRelations == 9
\* Most setRelation calls followed in one run of the other specifications.
MaxLifeRelations == 2
\* Most output objects queued for one feature.
MaxOutputs == 2
\* Most begin calls counted (and, in the query specifications, made) in one run.
MaxFeatures == 2

NodeIds == 1..MaxNode
Coord   == 0..1
Bool    == {TRUE, FALSE}

NoThrow == <<>>
NoRet   == <<"void">>
NoReset == <<"no reset">>

\* SeqsUpTo(S, n): the sequences over S of length at most n.
SeqsUpTo(S, n) == UNION {[1..k -> S] : k \in 0..n}

\* Where the store puts node n, as <<latp, lon>>: a fixed layout.
NodeCoord(n) == <<n % 2, (n \div 2) % 2>>

\* osmStore->nodes.at(n): defined when n is stored, std::out_of_range otherwise.
InStore(n) == n \in DOMAIN osmStore.nodes

\* Decrement with the counter run upwards (++ for --).
Decrement_up(x) == (x + 1) % (MAX_WAY_ID + 1)

\* WayID arithmetic: --x on an unsigned value wraps from 0 to MAX_WAY_ID.
Decrement(x) == (x + MAX_WAY_ID) % (MAX_WAY_ID + 1)

\* The count of begin calls, kept up to MaxFeatures.
Counted(n) == IF n < MaxFeatures THEN n + 1 ELSE n

\* The text of the exception setWay throws: "Way <id> is missing a node".
MissingNode(id) == <<"Way ", id, " is missing a node">>

----------------------------------------------------------------------------
(* Construction.  The vectors, maps and geometries are default-constructed *)
(* (empty) and newWayID has its initialiser; the scalar members and the    *)
(* pointers to the current feature have no initialiser, so whatever they   *)
(* hold is a choice (the flags among bools).                               *)

EmptyGeom == <<>>

\* A run without shapefile layers.
NoShapes == [indices |-> <<>>, geometries |-> <<>>, names |-> <<>>]

\* What the uninitialised start/end co-ordinates may hold.
Junk == {<<0, 0, 0, 0>>, <<1, 0, 0, 1>>}

\* The ways the store holds for the relations to refer to.
StoredWays == (1 :> <<1, 2>>) @@ (2 :> <<2, 3, 2>>)

\* The coordinate stores of a run: any subset of the node ids, each at its place.
Stores == {[nodes |-> [n \in S |-> NodeCoord(n)], ways |-> StoredWays] :
             S \in SUBSET NodeIds}

InitWith(stores, bools, worlds) ==
    /\ \E w \in worlds :
          /\ indices = w.indices
          /\ cachedGeometries = w.geometries
          /\ cachedGeometryNames = w.names
    /\ osmStore \in stores
    /\ newWayID = MAX_WAY_ID
    /\ osmID = 0
    /\ isWay \in bools /\ isRelation \in bools
    /\ \E j \in Junk : lon1 = j[1] /\ latp1 = j[2] /\ lon2 = j[3] /\ latp2 = j[4]
    /\ nodeVec \in {<<>>, <<MaxNode>>}
    /\ outerWayVec = <<>> /\ innerWayVec = <<>>
    /\ linestringCache = EmptyGeom /\ polygonCache = EmptyGeom
    /\ multiPolygonCache = EmptyGeom
    /\ linestringInited \in bools /\ polygonInited \in bools
    /\ multiPolygonInited \in bools
    /\ layers = <<>> /\ layerMap = <<>> /\ layerOrder = <<>>
    /\ outputs = <<>>
    /\ stringTable = <<>> /\ tagMap = <<>>
    /\ denseStart = 0 /\ denseEnd = 0 /\ densePtr = <<>>
    /\ keysPtr = <<>> /\ valsPtr = <<>> /\ tagLength = 1
    /\ call = "OSMObject" /\ thrown = NoThrow /\ ret = NoRet
    /\ relIds = <<>> /\ wayIds = {}
    /\ curRefs = [kind |-> "none", nodes |-> <<>>, outer |-> <<>>, inner |-> <<>>,
                  tags |-> <<>>, at |-> <<>>]
    /\ before = NoReset
    /\ begun = 0
    /\ registered = <<>> /\ recorded = {}

----------------------------------------------------------------------------
(* Lifecycle: osm_object.h:103-173.                                        *)

\* reset with the polygon flag forgotten.
reset_keepsPolygon ==
    /\ before' = [queued |-> Len(outputs),
                  inited |-> <<linestringInited, polygonInited, multiPolygonInited>>]
    /\ outputs' = <<>>
    /\ linestringInited' = FALSE
    /\ multiPolygonInited' = FALSE
    /\ UNCHANGED polygonInited

\* reset that clears the queue and leaves the geometry flags as they are.
reset_keepsGeometry ==
    /\ before' = [queued |-> Len(outputs),
                  inited |-> <<linestringInited, polygonInited, multiPolygonInited>>]
    /\ outputs' = <<>>
    /\ UNCHANGED initedVars

\* reset with the queue of output objects left as it is.
reset_keepsOutputs ==
    /\ before' = [queued |-> Len(outputs),
                  inited |-> <<linestringInited, polygonInited, multiPolygonInited>>]
    /\ UNCHANGED outputs
    /\ linestringInited' = FALSE
    /\ polygonInited' = FALSE
    /\ multiPolygonInited' = FALSE

\* Internal: clear current cached state.
reset ==
    /\ before' = [queued |-> Len(outputs),
                  inited |-> <<linestringInited, polygonInited, multiPolygonInited>>]
    /\ outputs' = <<>>
    /\ linestringInited' = FALSE
    /\ polygonInited' = FALSE
    /\ multiPolygonInited' = FALSE

\* setLocation with longitude and latitude taken for each other.
setLocation_swapped(a, b, c, d) ==
    /\ lon1' = b /\ latp1' = a /\ lon2' = d /\ latp2' = c

\* Internal: set start/end co-ordinates.
setLocation(a, b, c, d) ==
    /\ lon1' = a /\ latp1' = b /\ lon2' = c /\ latp2' = d

\* reset() called on its own.
Reset ==
    /\ reset
    /\ call' = "reset" /\ thrown' = NoThrow /\ ret' = NoRet
    /\ UNCHANGED <<spatialVars, osmStore, newWayID, identityVars, locationVars, nodeVec,
                   outerWayVec, innerWayVec, cacheVars, registryVars, tableVars,
                   denseVars, tabularVars, historyVars, curRefs>>

\* The identity flags of a node, with the way flag left as the previous
\* feature set it.
setNodeIdentity_keepsWay ==
    /\ UNCHANGED isWay
    /\ isRelation' = FALSE

\* ... with the relation flag left as the previous feature set it.
setNodeIdentity_keepsRelation ==
    /\ isWay' = FALSE
    /\ UNCHANGED isRelation

\* setNode: the identity flags of a node.
setNodeIdentity ==
    /\ isWay' = FALSE
    /\ isRelation' = FALSE

\* The dense tag members, with the pointer to the array not taken over.
setNodeDense_keepsPtr(dPtr, kvStart, kvEnd) ==
    /\ denseStart' = kvStart
    /\ denseEnd' = kvEnd
    /\ UNCHANGED densePtr

\* setNode: the dense tag members.
setNodeDense(dPtr, kvStart, kvEnd) ==
    /\ denseStart' = kvStart
    /\ denseEnd' = kvEnd
    /\ densePtr' = dPtr

\* We are now processing a node.  node is a LatpLon: [latp, lon].
setNode(id, dPtr, kvStart, kvEnd, node) ==
    /\ reset
    /\ osmID' = id
    /\ setNodeIdentity
    /\ setLocation(node.lon, node.latp, node.lon, node.latp)
    /\ setNodeDense(dPtr, kvStart, kvEnd)
    /\ call' = "setNode" /\ thrown' = NoThrow /\ ret' = NoRet
    /\ curRefs' = [kind |-> "node", nodes |-> <<>>, outer |-> <<>>, inner |-> <<>>,
                   tags |-> [array |-> dPtr, start |-> kvStart, end |-> kvEnd],
                   at |-> <<node.lon, node.latp>>]
    /\ begun' = Counted(begun)
    /\ UNCHANGED <<spatialVars, osmStore, newWayID, nodeVec, outerWayVec, innerWayVec,
                   cacheVars, registryVars, tableVars, tabularVars, relIds, wayIds,
                   registered, recorded>>

\* The part of setWay that every path runs before the store is consulted.
setWayEntry(way, nodeVecPtr) ==
    /\ reset
    /\ osmID' = way.id
    /\ isWay' = TRUE
    /\ isRelation' = FALSE
    /\ nodeVec' = nodeVecPtr
    /\ call' = "setWay" /\ ret' = NoRet
    /\ wayIds' = wayIds \cup {way.id}
    /\ curRefs' = [kind |-> "way", nodes |-> nodeVecPtr, outer |-> <<>>, inner |-> <<>>,
                   tags |-> [keys |-> way.keys, vals |-> way.vals], at |-> <<>>]
    /\ begun' = Counted(begun)
    /\ UNCHANGED <<spatialVars, osmStore, newWayID, outerWayVec, innerWayVec, cacheVars,
                   registryVars, tableVars, denseVars, relIds, registered, recorded>>

\* The tag members of setWay with keys and values taken from the wrong arrays.
setWayTags_swapped(way) ==
    /\ keysPtr' = way.vals
    /\ valsPtr' = way.keys
    /\ tagLength' = Len(way.keys)
    /\ thrown' = NoThrow

\* ... and the part that follows a setLocation that returned.
setWayTags(way) ==
    /\ keysPtr' = way.keys
    /\ valsPtr' = way.vals
    /\ tagLength' = Len(way.keys)
    /\ thrown' = NoThrow

\* A catch block reached with the tag members already taken over.
setWayThrow_tagsSet(way) ==
    /\ thrown' = MissingNode(way.id)
    /\ keysPtr' = way.keys
    /\ valsPtr' = way.vals
    /\ tagLength' = Len(way.keys)
    /\ UNCHANGED locationVars

\* ... and the catch block: nothing after the try is run.
setWayThrow(way) ==
    /\ thrown' = MissingNode(way.id)
    /\ UNCHANGED <<locationVars, tabularVars>>

\* A try block that looked up every node of the list.
setWayLookups_all(nodeVecPtr) == {nodeVecPtr[i] : i \in 1..Len(nodeVecPtr)}

\* The nodes whose absence the try block notices: those it looks up.
setWayLookups(nodeVecPtr) == {nodeVecPtr[1], nodeVecPtr[Len(nodeVecPtr)]}

\* We are now processing a way.  way is [id, keys, vals].
setWay(way, nodeVecPtr) ==
    /\ setWayEntry(way, nodeVecPtr)
    /\ IF nodeVecPtr = <<>>
       THEN \* front() and back() of an empty vector are undefined: the ids read are
            \* anything, so the lookup may fail or may deliver any co-ordinates.
            \/ setWayThrow(way)
            \/ /\ \E a, b, c, d \in Coord : setLocation(a, b, c, d)
               /\ setWayTags(way)
       ELSE IF \A n \in setWayLookups(nodeVecPtr) : InStore(n)
       THEN /\ setLocation(osmStore.nodes[nodeVecPtr[1]][2],
                           osmStore.nodes[nodeVecPtr[1]][1],
                           osmStore.nodes[nodeVecPtr[Len(nodeVecPtr)]][2],
                           osmStore.nodes[nodeVecPtr[Len(nodeVecPtr)]][1])
            /\ setWayTags(way)
       ELSE setWayThrow(way)

\* The identity flags of a relation, with the relation flag not raised.
setRelationIdentity_wayOnly ==
    /\ isWay' = TRUE
    /\ isRelation' = FALSE

\* setRelation: the identity flags of a relation, a way that is a relation.
setRelationIdentity ==
    /\ isWay' = TRUE
    /\ isRelation' = TRUE

\* The end points of a relation set to the origin.
setRelationLocation_origin == setLocation(0, 0, 0, 0)

\* setRelation: the call of setLocation is commented out (TODO), so the end
\* points stay as the previous feature left them.
setRelationLocation == UNCHANGED locationVars

\* We are now processing a relation.  relation is [keys, vals].
setRelation(relation, outerWayVecPtr, innerWayVecPtr) ==
    /\ reset
    /\ newWayID' = Decrement(newWayID)
    /\ osmID' = newWayID'
    /\ setRelationIdentity
    /\ outerWayVec' = outerWayVecPtr
    /\ innerWayVec' = innerWayVecPtr
    /\ setRelationLocation
    /\ keysPtr' = relation.keys
    /\ valsPtr' = relation.vals
    /\ tagLength' = Len(relation.keys)
    /\ call' = "setRelation" /\ thrown' = NoThrow /\ ret' = NoRet
    /\ relIds' = Append(relIds, osmID')
    /\ curRefs' = [kind |-> "relation", nodes |-> <<>>,
                   outer |-> outerWayVecPtr, inner |-> innerWayVecPtr,
                   tags |-> [keys |-> relation.keys, vals |-> relation.vals],
                   at |-> <<>>]
    /\ begun' = Counted(begun)
    /\ UNCHANGED <<spatialVars, osmStore, nodeVec, cacheVars, registryVars,
                   tableVars, denseVars, wayIds, registered, recorded>>

----------------------------------------------------------------------------
(* Geometry Builder: linestring(), polygon(), multiPolygon()               *)
(* (osm_object.h:210-215, bodies in osm_object.cpp).                       *)

MissingRef == <<"missing node">>

\* Every node of the list is in the store.
Resolvable(nv) == \A i \in 1..Len(nv) : InStore(nv[i])

\* The point sequence of a node list, in reference order.
nodeListLinestring(nv) == [i \in 1..Len(nv) |-> osmStore.nodes[nv[i]]]

\* The same node sequence taken as a ring.
nodeListPolygon(nv) == <<"ring", nodeListLinestring(nv)>>

\* Every way of the list is stored and every node of it too.
WaysResolvable(wv) ==
    \A i \in 1..Len(wv) : wv[i] \in DOMAIN osmStore.ways /\ Resolvable(osmStore.ways[wv[i]])

\* Outer and inner rings, each way resolved through the line path.
wayListMultiPolygon(outer, inner) ==
    [outer |-> [i \in 1..Len(outer) |-> nodeListLinestring(osmStore.ways[outer[i]])],
     inner |-> [i \in 1..Len(inner) |-> nodeListLinestring(osmStore.ways[inner[i]])]]

\* What a geometry accessor leaves alone.
accessorFrame ==
    /\ before' = NoReset
    /\ UNCHANGED <<spatialVars, osmStore, newWayID, identityVars, locationVars, nodeVec,
                   outerWayVec, innerWayVec, registryVars, outputs, tableVars,
                   denseVars, tabularVars, historyVars, curRefs>>

\* The memoisation step of each accessor: whether it can deliver, and what it
\* leaves in its cache when it does.
lineReady == linestringInited \/ Resolvable(nodeVec)
lineMemo ==
    IF linestringInited
    THEN UNCHANGED <<linestringCache, linestringInited>>
    ELSE /\ linestringCache' = nodeListLinestring(nodeVec)
         /\ linestringInited' = TRUE

polyReady == polygonInited \/ Resolvable(nodeVec)
polyMemo ==
    IF polygonInited
    THEN UNCHANGED <<polygonCache, polygonInited>>
    ELSE /\ polygonCache' = nodeListPolygon(nodeVec)
         /\ polygonInited' = TRUE

multiReady ==
    multiPolygonInited \/ (WaysResolvable(outerWayVec) /\ WaysResolvable(innerWayVec))
multiMemo ==
    IF multiPolygonInited
    THEN UNCHANGED <<multiPolygonCache, multiPolygonInited>>
    ELSE /\ multiPolygonCache' = wayListMultiPolygon(outerWayVec, innerWayVec)
         /\ multiPolygonInited' = TRUE

linestring ==
    /\ call' = "linestring"
    /\ accessorFrame
    /\ UNCHANGED <<polygonCache, polygonInited, multiPolygonCache, multiPolygonInited>>
    /\ IF lineReady
       THEN lineMemo /\ ret' = linestringCache' /\ thrown' = NoThrow
       ELSE /\ thrown' = MissingRef /\ ret' = NoRet
            /\ UNCHANGED <<linestringCache, linestringInited>>

polygon ==
    /\ call' = "polygon"
    /\ accessorFrame
    /\ UNCHANGED <<linestringCache, linestringInited, multiPolygonCache,
                   multiPolygonInited>>
    /\ IF polyReady
       THEN polyMemo /\ ret' = polygonCache' /\ thrown' = NoThrow
       ELSE /\ thrown' = MissingRef /\ ret' = NoRet
            /\ UNCHANGED <<polygonCache, polygonInited>>

multiPolygon ==
    /\ call' = "multiPolygon"
    /\ accessorFrame
    /\ UNCHANGED <<linestringCache, linestringInited, polygonCache, polygonInited>>
    /\ IF multiReady
       THEN multiMemo /\ ret' = multiPolygonCache' /\ thrown' = NoThrow
       ELSE /\ thrown' = MissingRef /\ ret' = NoRet
            /\ UNCHANGED <<multiPolygonCache, multiPolygonInited>>

----------------------------------------------------------------------------
(* Layer Registry and Feature Emitter: addLayer (osm_object.h:88-90),      *)
(* Layer, LayerAsCentroid (osm_object.h:219-221), bodies in                *)
(* osm_object.cpp.                                                         *)

\* A LayerDef with the two zoom levels taken for each other.
LayerDef_zoomsSwapped(name, minzoom, maxzoom, simplifyBelow, simplifyLevel, simplifyLength, simplifyRatio) ==
    [name |-> name, minzoom |-> maxzoom, maxzoom |-> minzoom,
     simplifyBelow |-> simplifyBelow, simplifyLevel |-> simplifyLevel,
     simplifyLength |-> simplifyLength, simplifyRatio |-> simplifyRatio,
     attributeMap |-> <<>>]

\* struct LayerDef (osm_object.h:20-29).
LayerDef(name, minzoom, maxzoom, simplifyBelow, simplifyLevel, simplifyLength, simplifyRatio) ==
    [name |-> name, minzoom |-> minzoom, maxzoom |-> maxzoom,
     simplifyBelow |-> simplifyBelow, simplifyLevel |-> simplifyLevel,
     simplifyLength |-> simplifyLength, simplifyRatio |-> simplifyRatio,
     attributeMap |-> <<>>]

\* m with key k set to v (std::map::operator[] followed by an assignment).
MapPut(m, k, v) == [x \in DOMAIN m \cup {k} |-> IF x = k THEN v ELSE m[x]]

\* The first group whatever the layer.
GroupOf_first(layerNum) == 1

\* The group of layerOrder that holds a layer index.
GroupOf(layerNum) ==
    CHOOSE g \in 1..Len(layerOrder) :
        \E i \in 1..Len(layerOrder[g]) : layerOrder[g][i] = layerNum

\* Define a layer.  An empty writeTo opens a group of its own; otherwise the
\* layer joins the group of the layer named writeTo.
addLayer(name, minzoom, maxzoom, simplifyBelow, simplifyLevel, simplifyLength, simplifyRatio, writeTo) ==
    LET layerNum == Len(layers) IN
    /\ writeTo = "" \/ writeTo \in DOMAIN layerMap
    /\ layers' = Append(layers, LayerDef(name, minzoom, maxzoom, simplifyBelow,
                                         simplifyLevel, simplifyLength, simplifyRatio))
    /\ layerMap' = MapPut(layerMap, name, layerNum)
    /\ layerOrder' =
         IF writeTo = ""
         THEN Append(layerOrder, <<layerNum>>)
         ELSE [g \in 1..Len(layerOrder) |->
                 IF g = GroupOf(layerMap[writeTo])
                 THEN Append(layerOrder[g], layerNum)
                 ELSE layerOrder[g]]
    /\ call' = "addLayer" /\ thrown' = NoThrow /\ ret' = layerNum
    /\ before' = NoReset
    /\ registered' = Append(registered,
                            [name |-> name, minzoom |-> minzoom, maxzoom |-> maxzoom,
                             writeTo |-> writeTo, index |-> layerNum])
    /\ UNCHANGED <<spatialVars, osmStore, newWayID, identityVars, locationVars, nodeVec,
                   outerWayVec, innerWayVec, cacheVars, initedVars, outputs,
                   tableVars, denseVars, tabularVars, relIds, wayIds, begun, recorded,
                   curRefs>>

UnknownLayer(name) == <<"unknown layer ", name>>

\* An output object bound to the first layer whatever the index given.
OutputObject_firstLayer(geomType, layer, id) ==
    [geomType |-> geomType, layer |-> 0, objectID |-> id, attributes |-> <<>>]

\* An output object bound to a layer index; it starts with no attributes.
OutputObject(geomType, layer, id) ==
    [geomType |-> geomType, layer |-> layer, objectID |-> id, attributes |-> <<>>]

\* What an emission leaves alone.
emitFrame ==
    /\ before' = NoReset
    /\ UNCHANGED <<spatialVars, osmStore, newWayID, identityVars, locationVars, nodeVec,
                   outerWayVec, innerWayVec, registryVars, tableVars, denseVars,
                   tabularVars, historyVars, curRefs>>

\* Emit the current feature to a layer: a point for a node, else the line or
\* (area) the polygon, the multi-polygon for a relation.
Layer(layerName, area) ==
    /\ call' = "Layer" /\ ret' = [key |-> layerName, value |-> NoRet]
    /\ emitFrame
    /\ IF layerName \notin DOMAIN layerMap
       THEN /\ thrown' = UnknownLayer(layerName)
            /\ UNCHANGED <<outputs, cacheVars, initedVars>>
       ELSE IF ~isWay
       THEN /\ outputs' = Append(outputs, OutputObject("POINT", layerMap[layerName], osmID))
            /\ thrown' = NoThrow
            /\ UNCHANGED <<cacheVars, initedVars>>
       ELSE IF ~area
       THEN /\ UNCHANGED <<polygonCache, polygonInited, multiPolygonCache,
                           multiPolygonInited>>
            /\ IF lineReady
               THEN /\ lineMemo /\ thrown' = NoThrow
                    /\ outputs' = Append(outputs,
                            OutputObject("LINESTRING", layerMap[layerName], osmID))
               ELSE /\ thrown' = MissingRef
                    /\ UNCHANGED <<outputs, linestringCache, linestringInited>>
       ELSE IF ~isRelation
       THEN /\ UNCHANGED <<linestringCache, linestringInited, multiPolygonCache,
                           multiPolygonInited>>
            /\ IF polyReady
               THEN /\ polyMemo /\ thrown' = NoThrow
                    /\ outputs' = Append(outputs,
                            OutputObject("POLYGON", layerMap[layerName], osmID))
               ELSE /\ thrown' = MissingRef
                    /\ UNCHANGED <<outputs, polygonCache, polygonInited>>
       ELSE /\ UNCHANGED <<linestringCache, linestringInited, polygonCache,
                           polygonInited>>
            /\ IF multiReady
               THEN /\ multiMemo /\ thrown' = NoThrow
                    /\ outputs' = Append(outputs,
                            OutputObject("POLYGON", layerMap[layerName], osmID))
               ELSE /\ thrown' = MissingRef
                    /\ UNCHANGED <<outputs, multiPolygonCache, multiPolygonInited>>

\* Emit the current feature to a layer as a single point: the node itself, or
\* the centroid of the way's polygon or of the relation's multi-polygon.
LayerAsCentroid(layerName) ==
    /\ call' = "LayerAsCentroid" /\ ret' = [key |-> layerName, value |-> NoRet]
    /\ emitFrame
    /\ UNCHANGED <<linestringCache, linestringInited>>
    /\ IF layerName \notin DOMAIN layerMap
       THEN /\ thrown' = UnknownLayer(layerName)
            /\ UNCHANGED <<outputs, polygonCache, polygonInited, multiPolygonCache,
                           multiPolygonInited>>
       ELSE IF ~isWay
       THEN /\ outputs' = Append(outputs,
                    OutputObject("CENTROID", layerMap[layerName], osmID))
            /\ thrown' = NoThrow
            /\ UNCHANGED <<polygonCache, polygonInited, multiPolygonCache,
                           multiPolygonInited>>
       ELSE IF ~isRelation
       THEN /\ UNCHANGED <<multiPolygonCache, multiPolygonInited>>
            /\ IF polyReady
               THEN /\ polyMemo /\ thrown' = NoThrow
                    /\ outputs' = Append(outputs,
                            OutputObject("CENTROID", layerMap[layerName], osmID))
               ELSE /\ thrown' = MissingRef
                    /\ UNCHANGED <<outputs, polygonCache, polygonInited>>
       ELSE /\ UNCHANGED <<polygonCache, polygonInited>>
            /\ IF multiReady
               THEN /\ multiMemo /\ thrown' = NoThrow
                    /\ outputs' = Append(outputs,
                            OutputObject("CENTROID", layerMap[layerName], osmID))
               ELSE /\ thrown' = MissingRef
                    /\ UNCHANGED <<outputs, multiPolygonCache, multiPolygonInited>>

\* The type tags of attribute values: string, numeric, boolean.
StringType  == 0
NumericType == 1
BooleanType == 2

UsageError(key) == <<"no output object to set ", key, " on">>

\* The output object the first in the queue instead of the last.
AttributeTarget_first == IF outputs = <<>> THEN Len(outputs) ELSE 1

\* The output object an attribute call writes to: the one emitted last.
AttributeTarget == Len(outputs)

\* OutputObject::addAttribute: set or overwrite one attribute.
addAttribute(oo, key, value) ==
    [oo EXCEPT !.attributes = MapPut(@, key, value)]

\* The key's type written into the attribute map of the output object's layer.
attributeRegistry_records(key, type) ==
    /\ layers' = IF outputs = <<>> THEN layers
                 ELSE [layers EXCEPT ![outputs[Len(outputs)].layer + 1].attributeMap =
                                         MapPut(@, key, type)]
    /\ UNCHANGED <<layerMap, layerOrder>>

\* The layer registry is read-only while features are processed.
attributeRegistry(key, type) == UNCHANGED registryVars

\* What else an attribute call leaves alone.
attributeFrame ==
    /\ before' = NoReset
    /\ UNCHANGED <<spatialVars, osmStore, newWayID, identityVars, locationVars, nodeVec,
                   outerWayVec, innerWayVec, cacheVars, initedVars,
                   tableVars, denseVars, tabularVars, historyVars, curRefs>>

\* The three attribute calls, which differ in the type of the value.
setAttribute(name, type, key, val) ==
    /\ call' = name /\ ret' = [key |-> key, value |-> val]
    /\ attributeFrame
    /\ attributeRegistry(key, type)
    /\ IF outputs = <<>>
       THEN thrown' = UsageError(key) /\ UNCHANGED outputs
       ELSE /\ thrown' = NoThrow
            /\ outputs' = [outputs EXCEPT ![AttributeTarget] =
                              addAttribute(@, key, [type |-> type, value |-> val])]

\* Set attributes in a vector tile's Attributes table.
Attribute(key, val) == setAttribute("Attribute", StringType, key, val)
AttributeNumeric(key, val) == setAttribute("AttributeNumeric", NumericType, key, val)
AttributeBoolean(key, val) == setAttribute("AttributeBoolean", BooleanType, key, val)

----------------------------------------------------------------------------
(* vector_layers metadata: setVectorLayerMetadata, serialiseLayerJSON      *)
(* (osm_object.h:228-231, bodies in osm_object.cpp).                       *)

\* What the metadata calls leave alone.
metadataFrame ==
    /\ thrown' = NoThrow
    /\ before' = NoReset
    /\ UNCHANGED <<spatialVars, osmStore, newWayID, identityVars, locationVars, nodeVec,
                   outerWayVec, innerWayVec, cacheVars, initedVars, layerMap,
                   layerOrder, outputs, tableVars, denseVars, tabularVars, relIds,
                   wayIds, begun, registered, curRefs>>

\* Record the type of an attribute key of a layer: attributeMap[key] = type.
setVectorLayerMetadata(layer, key, type) ==
    /\ layer < Len(layers)
    /\ layers' = [layers EXCEPT ![layer + 1].attributeMap = MapPut(@, key, type)]
    /\ recorded' = recorded \cup {<<layer, key, type>>}
    /\ call' = "setVectorLayerMetadata" /\ ret' = NoRet
    /\ metadataFrame

\* The vector_layers document: one entry per layer, in the order of layers.
vectorLayers(defs) ==
    [vector_layers |->
        [i \in 1..Len(defs) |->
            [id |-> defs[i].name, description |-> "",
             minzoom |-> defs[i].minzoom, maxzoom |-> defs[i].maxzoom,
             fields |-> defs[i].attributeMap]]]

serialiseLayerJSON ==
    /\ call' = "serialiseLayerJSON" /\ ret' = vectorLayers(layers)
    /\ metadataFrame
    /\ UNCHANGED <<layers, recorded>>

----------------------------------------------------------------------------
(* Tag Decoder: readStringTable, findStringPosition, Holds, Find           *)
(* (osm_object.h:92-101, 180-184, bodies in osm_object.cpp).  String ids   *)
(* count from 0: id i is stringTable[i + 1].                               *)

stringAt(i) == stringTable[i + 1]

\* The string -> position map of a table: each string at its first position.
tagMapOf(table) ==
    [str \in {table[i] : i \in 1..Len(table)} |->
        CHOOSE i \in 0..(Len(table) - 1) :
            /\ table[i + 1] = str
            /\ \A j \in 0..(i - 1) : table[j + 1] # str]

\* Read string dictionary from the .pbf.
readStringTable(table) ==
    /\ stringTable' = table
    /\ tagMap' = tagMapOf(table)
    /\ call' = "readStringTable" /\ thrown' = NoThrow /\ ret' = NoRet
    /\ before' = NoReset
    /\ UNCHANGED <<spatialVars, osmStore, newWayID, identityVars, locationVars, nodeVec,
                   outerWayVec, innerWayVec, cacheVars, initedVars, registryVars,
                   outputs, denseVars, tabularVars, historyVars, curRefs>>

NotFound == -1

\* Find a string in the dictionary.
findStringPosition(str) == IF str \in DOMAIN tagMap THEN tagMap[str] ELSE NotFound

\* Ways and relations: the first of the positions n, n+1, ... below len whose key
\* id is keyNum.
RECURSIVE TabularScan(_, _, _, _)
TabularScan(keys, len, n, keyNum) ==
    IF n >= len \/ n >= Len(keys) THEN NotFound
    ELSE IF keys[n + 1] = keyNum THEN n
    ELSE TabularScan(keys, len, n + 1, keyNum)

\* Nodes: step through the pairs from n up to end; a key id of zero ends the
\* node's list; otherwise the value id is read and the key id compared.
RECURSIVE DenseScan(_, _, _, _)
DenseScan(dPtr, n, end, keyNum) ==
    IF n >= end \/ n >= Len(dPtr) THEN NotFound
    ELSE IF dPtr[n + 1] = 0 THEN NotFound
    ELSE IF dPtr[n + 1] = keyNum THEN n
    ELSE DenseScan(dPtr, n + 2, end, keyNum)

\* Holds and Find as functions of the members they read.
HoldsIn(way, keys, len, dPtr, start, end, keyNum) ==
    /\ keyNum # NotFound
    /\ IF way THEN TabularScan(keys, len, 0, keyNum) # NotFound
       ELSE DenseScan(dPtr, start, end, keyNum) # NotFound

FindIn(way, keys, vals, len, dPtr, start, end, keyNum) ==
    IF keyNum = NotFound THEN ""
    ELSE IF way
    THEN LET n == TabularScan(keys, len, 0, keyNum) IN
         IF n = NotFound THEN "" ELSE stringAt(vals[n + 1])
    ELSE LET n == DenseScan(dPtr, start, end, keyNum) IN
         IF n = NotFound THEN "" ELSE stringAt(dPtr[n + 2])

\* What a tag query leaves alone: everything.
queryFrame ==
    /\ thrown' = NoThrow
    /\ before' = NoReset
    /\ UNCHANGED <<spatialVars, osmStore, newWayID, identityVars, locationVars, nodeVec,
                   outerWayVec, innerWayVec, cacheVars, initedVars, registryVars,
                   outputs, tableVars, denseVars, tabularVars, historyVars, curRefs>>

\* Check if there's a value for a given key.
Holds(key) ==
    /\ call' = "Holds"
    /\ ret' = [key |-> key,
               value |-> HoldsIn(isWay, keysPtr, tagLength, densePtr, denseStart,
                                 denseEnd, findStringPosition(key))]
    /\ queryFrame

\* Get an OSM tag for a given key (or return empty string if none).
Find(key) ==
    /\ call' = "Find"
    /\ ret' = [key |-> key,
               value |-> FindIn(isWay, keysPtr, valsPtr, tagLength, densePtr,
                                denseStart, denseEnd, findStringPosition(key))]
    /\ queryFrame

----------------------------------------------------------------------------
(* Spatial Query Engine: FindIntersecting, Intersects,                     *)
(* findIntersectingGeometries, verifyIntersectResults, namesOfGeometries   *)
(* (osm_object.h:188-194, bodies in osm_object.cpp).  A point is           *)
(* <<lon, latp>>; a shape is the set of grid points it covers; a box is    *)
(* [lo, hi], two corner points.                                            *)

Min(a, b) == IF a <= b THEN a ELSE b
Max(a, b) == IF a <= b THEN b ELSE a

Box(p, q) == [lo |-> <<Min(p[1], q[1]), Min(p[2], q[2])>>,
              hi |-> <<Max(p[1], q[1]), Max(p[2], q[2])>>]

BoxesIntersect(a, b) ==
    /\ a.lo[1] <= b.hi[1] /\ b.lo[1] <= a.hi[1]
    /\ a.lo[2] <= b.hi[2] /\ b.lo[2] <= a.hi[2]

\* The grid points of the segment from p to q.
Segment(p, q) ==
    {r \in Coord \X Coord :
        /\ BoxesIntersect(Box(r, r), Box(p, q))
        /\ (r[1] - p[1]) * (q[2] - p[2]) = (r[2] - p[2]) * (q[1] - p[1])}

\* The index's answer for a box: the entries whose boxes meet it, in index order.
RTreeQuery(rtree, box) == SelectSeq(rtree, LAMBDA e : BoxesIntersect(e.box, box))

\* The exact test of one shape against the subject's points.
GeomIntersects(id, pts) == cachedGeometries[id + 1] \cap pts # {}

\* Verification pass: of the candidates, the ids whose shape passes the exact test.
RECURSIVE verifyIntersectResults(_, _)
verifyIntersectResults(results, pts) ==
    IF results = <<>> THEN <<>>
    ELSE LET rest == verifyIntersectResults(Tail(results), pts) IN
         IF GeomIntersects(Head(results).id, pts)
         THEN <<Head(results).id>> \o rest
         ELSE rest

\* The ids of the shapes of a layer that the current feature meets; none for a
\* layer without index and none for a relation.
findIntersectingGeometries(layerName) ==
    LET p1 == <<lon1, latp1>>
        p2 == <<lon2, latp2>>
    IN  IF layerName \notin DOMAIN indices THEN <<>>
        ELSE IF ~isWay
        THEN verifyIntersectResults(RTreeQuery(indices[layerName], Box(p1, p1)), {p1})
        ELSE IF ~isRelation
        THEN verifyIntersectResults(RTreeQuery(indices[layerName], Box(p1, p2)),
                                    Segment(p1, p2))
        ELSE <<>>

\* The names of the shapes, each name once, in the order first met.
RECURSIVE namesOfGeometries(_, _)
namesOfGeometries(ids, sofar) ==
    IF ids = <<>> THEN sofar
    ELSE LET name == cachedGeometryNames[Head(ids)] IN
         namesOfGeometries(Tail(ids),
             IF \E i \in 1..Len(sofar) : sofar[i] = name THEN sofar
             ELSE Append(sofar, name))

\* Find intersecting shapefile layer.
FindIntersecting(layerName) ==
    /\ call' = "FindIntersecting"
    /\ ret' = [key |-> layerName,
               value |-> namesOfGeometries(findIntersectingGeometries(layerName), <<>>)]
    /\ queryFrame

Intersects(layerName) ==
    /\ call' = "Intersects"
    /\ ret' = [key |-> layerName,
               value |-> findIntersectingGeometries(layerName) # <<>>]
    /\ queryFrame

----------------------------------------------------------------------------
(* The calls of a run, with their inputs drawn from the sets given.        *)

BeginNode(ids, arrays, coords) ==
    \E id \in ids, d \in arrays, la, lo \in coords :
        setNode(id, d.array, d.start, d.end, [latp |-> la, lon |-> lo])

BeginWay(ids, tags, nvs) ==
    \E id \in ids, t \in tags, nv \in nvs :
        setWay([id |-> id, keys |-> t.keys, vals |-> t.vals], nv)

BeginRelation(tags, outers, inners, limit) ==
    \E t \in tags, o \in outers, i \in inners :
        /\ Len(relIds) < limit
        /\ setRelation(t, o, i)

AddLayer(names) ==
    \E name \in names :
        /\ name \notin DOMAIN layerMap
        /\ addLayer(name, 0, 14, 0, 0, 0, 0, "")

Emit(names) ==
    \E name \in names, area \in Bool :
        /\ Len(outputs) < MaxOutputs
        /\ Layer(name, area)

\* The store with exactly the nodes of S.
StoreOf(S) == [nodes |-> [n \in S |-> NodeCoord(n)], ways |-> StoredWays]

OneTag  == {[keys |-> <<1>>, vals |-> <<2>>]}
OneDense == {[array |-> <<1, 2, 0>>, start |-> 0, end |-> 2]}

----------------------------------------------------------------------------
(* The lifecycle specification: features of each kind begun in any order,  *)
(* with emissions in between.                                              *)

LifeNodeVecs == {<<1, 2>>, <<2, 3>>}
LifeLayers   == {"roads"}

Init == InitWith({StoreOf({1, 2})}, Bool, {NoShapes})

Next ==
    \/ BeginNode({1}, OneDense, Coord)
    \/ BeginWay({2}, OneTag, LifeNodeVecs)
    \/ BeginRelation(OneTag, {<<1>>}, {<<>>}, MaxLifeRelations)
    \/ Reset
    \/ linestring
    \/ polygon
    \/ multiPolygon
    \/ AddLayer(LifeLayers)
    \/ Emit(LifeLayers)

Spec == Init /\ [][Next]_vars

----------------------------------------------------------------------------
(* The way specification: ways with every node list up to MaxRefs, over    *)
(* every store, nodes in between.                                          *)

InitWay == InitWith(Stores, {FALSE}, {NoShapes})

NextWay ==
    \/ BeginNode({1}, OneDense, {0})
    \/ BeginWay({2}, OneTag, SeqsUpTo(NodeIds, MaxRefs))

SpecWay == InitWay /\ [][NextWay]_vars

----------------------------------------------------------------------------
(* The id specification: ways with every id of the permitted range and     *)
(* relations, interleaved with nodes and resets, past the point where the  *)
(* relation counter wraps.                                                 *)

InitIds == InitWith({StoreOf({1, 2})}, Bool, {NoShapes})

NextIds ==
    \/ BeginNode({1}, OneDense, {0})
    \/ BeginWay(1..MAX_WAY_ID, OneTag, {<<1, 2>>, <<3>>})
    \/ BeginRelation(OneTag, {<<1>>}, {<<>>}, MaxRelations)
    \/ Reset

SpecIds == InitIds /\ [][NextIds]_vars

----------------------------------------------------------------------------
(* Properties of the lifecycle.                                            *)

BeginCalls == {"setNode", "setWay", "setRelation"}

\* C1: right after a setNode, setWay or setRelation call that returned normally,
\* whatever reset() found, the output queue is empty and the three geometry
\* flags are false.
C1_BeginClears ==
    (call \in BeginCalls /\ thrown = NoThrow) =>
        /\ outputs = <<>>
        /\ ~linestringInited /\ ~polygonInited /\ ~multiPolygonInited

\* A begin call returned after finding a queued output and all three flags set.
C1_Witness ==
    /\ call = "setWay" /\ thrown = NoThrow
    /\ before = [queued |-> 1, inited |-> <<TRUE, TRUE, TRUE>>]
    /\ outputs = <<>>

\* What each accessor has to return when it builds from the lists given.
LineOf(nv) == IF Resolvable(nv) THEN nodeListLinestring(nv) ELSE MissingRef
PolygonOf(nv) == IF Resolvable(nv) THEN nodeListPolygon(nv) ELSE MissingRef
MultiOf(o, i) ==
    IF WaysResolvable(o) /\ WaysResolvable(i) THEN wayListMultiPolygon(o, i)
    ELSE MissingRef

\* An accessor returned a geometry for a feature begun by setNode/setWay/setRelation.
Returned(accessor) ==
    call = accessor /\ thrown = NoThrow /\ curRefs.kind # "none"

C3_Original ==
    (call = "setWay" /\ nodeVec # <<>>) =>
        /\ thrown \in {NoThrow, MissingNode(osmID)}
        /\ thrown = MissingNode(osmID) <=> ~Resolvable(nodeVec)

\* C3 amended: for a non-empty node list, setWay throws the missing-node error,
\* carrying the way's id, exactly when the first or the last node of the list is
\* not in the store; nodes in between are not looked up.
C3_EndpointsOnly ==
    (call = "setWay" /\ nodeVec # <<>>) =>
        /\ thrown \in {NoThrow, MissingNode(osmID)}
        /\ thrown = MissingNode(osmID) <=>
              (~InStore(nodeVec[1]) \/ ~InStore(nodeVec[Len(nodeVec)]))

\* setWay returned normally for a way whose middle node is not in the store.
C3_Witness ==
    /\ call = "setWay" /\ thrown = NoThrow
    /\ Len(nodeVec) = 3
    /\ InStore(nodeVec[1]) /\ ~InStore(nodeVec[2]) /\ InStore(nodeVec[3])

\* (MAX_WAY_ID - k) in WayID arithmetic.
WayIdMinus(k) == (2 * (MAX_WAY_ID + 1) + MAX_WAY_ID - k) % (MAX_WAY_ID + 1)

C5_Original ==
    \A k \in 1..Len(relIds) : relIds[k] \notin wayIds

\* C5 amended: while at most MAX_WAY_ID relations have been processed, an id
\* given to a relation equals a genuine way id only if that way id is at least
\* MAX_WAY_ID minus the number of relations; ways with lower ids never collide.
C5_CollisionOnlyNearMax ==
    Len(relIds) <= MAX_WAY_ID =>
        \A k \in 1..Len(relIds) :
            relIds[k] \in wayIds => relIds[k] >= MAX_WAY_ID - Len(relIds)

\* Three relations and the ways 1, 2 and 3 in one run, none colliding.
C5_Witness ==
    /\ Len(relIds) = 3
    /\ wayIds = {1, 2, 3}
    /\ \A k \in 1..3 : relIds[k] \notin wayIds

\* C6: once a feature has been begun, the flags show exactly one identity mode,
\* the one of the begin call: node (neither flag), way (isWay alone) or relation
\* (both); isRelation without isWay does not occur, and the id of a relation is
\* the one the counter produced.
C6_OneIdentityMode ==
    curRefs.kind # "none" =>
        /\ ~(isRelation /\ ~isWay)
        /\ curRefs.kind = "node" <=> (~isWay /\ ~isRelation)
        /\ curRefs.kind = "way" <=> (isWay /\ ~isRelation)
        /\ curRefs.kind = "relation" <=> (isWay /\ isRelation)
        /\ isRelation =>
              /\ relIds # <<>>
              /\ osmID = relIds[Len(relIds)]
              /\ osmID = newWayID

\* A node is current, begun after a relation had been processed.
C6_Witness ==
    /\ curRefs.kind = "node" /\ call = "setNode"
    /\ ~isWay /\ ~isRelation
    /\ relIds # <<>>

----------------------------------------------------------------------------
(* The tag specification: one block's string table, then up to MaxFeatures *)
(* features of any kind, each queried for every key.                       *)

\* The block's string table; id 0 is the empty string, as in the .pbf.
TagTables == {<<"", "highway", "primary", "name">>,
              <<"", "name", "highway", "primary", "ref">>}

\* Keys asked for: the strings of the tables and one that is in neither.
TagKeys == {"", "highway", "primary", "name", "ref", "oneway"}

\* Dense nodes: the shared keys_vals array and the node's [start, end) in it.
\* The range ends at the node's terminator or one past it; the last holds a
\* second node's pairs after the terminator.
TagDense ==
    {[array |-> <<1, 2, 0, 3, 2, 0>>, start |-> 0, end |-> 2],
     [array |-> <<1, 2, 0, 3, 2, 0>>, start |-> 0, end |-> 3],
     [array |-> <<1, 2, 0, 3, 2, 0>>, start |-> 3, end |-> 5],
     [array |-> <<0, 1, 3, 0>>, start |-> 0, end |-> 0],
     [array |-> <<0, 1, 3, 0>>, start |-> 1, end |-> 4],
     [array |-> <<1, 2, 3, 1, 0>>, start |-> 0, end |-> 4],
     [array |-> <<2, 1, 0, 3, 2, 0>>, start |-> 0, end |-> 6]}

\* Ways and relations: parallel key and value ids.
TagLists ==
    {[keys |-> <<>>, vals |-> <<>>],
     [keys |-> <<1>>, vals |-> <<2>>],
     [keys |-> <<3, 1>>, vals |-> <<2, 3>>],
     [keys |-> <<2, 2>>, vals |-> <<1, 3>>]}

InitTags == InitWith({StoreOf({1, 2})}, {FALSE}, {NoShapes})

\* Queries come from the callback of a feature whose table is loaded.
Queryable == curRefs.kind # "none" /\ thrown = NoThrow /\ stringTable # <<>>

NextTags ==
    \/ \E t \in TagTables : stringTable = <<>> /\ readStringTable(t)
    \/ stringTable # <<>> /\ begun < MaxFeatures /\ BeginNode({1}, TagDense, {0})
    \/ stringTable # <<>> /\ begun < MaxFeatures /\ BeginWay({2}, TagLists, {<<1, 2>>})
    \/ /\ stringTable # <<>> /\ begun < MaxFeatures
       /\ BeginRelation(TagLists, {<<1>>}, {<<>>}, MaxLifeRelations)
    \/ \E key \in TagKeys : Queryable /\ Holds(key)
    \/ \E key \in TagKeys : Queryable /\ Find(key)

SpecTags == InitTags /\ [][NextTags]_vars

\* The string-table position of a key, by the table alone.
PositionOf(key) ==
    IF \E i \in 1..Len(stringTable) : stringTable[i] = key
    THEN (CHOOSE i \in 1..Len(stringTable) : stringTable[i] = key) - 1
    ELSE NotFound

\* The current feature's own encoding, as its begin call was given it.
Own == curRefs.tags

\* C7: a tag query answers from the current feature's own encoding alone: for a
\* node from the dense sub-range setNode was given, for a way or relation from
\* the key/value arrays its begin call was given, whatever an earlier feature
\* left in the members of the other encoding.
C7_OwnEncodingOnly ==
    (call \in {"Holds", "Find"} /\ curRefs.kind # "none") =>
        LET keyNum == PositionOf(ret.key) IN
        IF curRefs.kind = "node"
        THEN ret.value =
               IF call = "Holds"
               THEN HoldsIn(FALSE, <<>>, 0, Own.array, Own.start, Own.end, keyNum)
               ELSE FindIn(FALSE, <<>>, <<>>, 0, Own.array, Own.start, Own.end, keyNum)
        ELSE ret.value =
               IF call = "Holds"
               THEN HoldsIn(TRUE, Own.keys, Len(Own.keys), <<>>, 0, 0, keyNum)
               ELSE FindIn(TRUE, Own.keys, Own.vals, Len(Own.keys), <<>>, 0, 0, keyNum)

\* A node without the tag, queried after a way that had it, answers false.
C7_Witness ==
    /\ call = "Holds" /\ curRefs.kind = "node"
    /\ ret.key = "highway" /\ ret.value = FALSE
    /\ keysPtr # <<>> /\ tagLength > 0
    /\ PositionOf("highway") = keysPtr[1]

\* The key ids of a node: those at the pair positions of its sub-range, up to
\* the terminator.
RECURSIVE DenseKeyIds(_, _, _)
DenseKeyIds(array, n, end) ==
    IF n >= end \/ array[n + 1] = 0 THEN {}
    ELSE {array[n + 1]} \cup DenseKeyIds(array, n + 2, end)

\* C8: for a node, Holds(stringAt(k)) is true exactly for the key ids k of the
\* pairs of its sub-range before the terminator, and false for every other id,
\* those found in the array after the terminator or outside the range included.
C8_DenseHolds ==
    (call = "Holds" /\ curRefs.kind = "node") =>
        \A k \in 0..(Len(stringTable) - 1) :
            ret.key = stringAt(k) =>
                (ret.value <=> k \in DenseKeyIds(Own.array, Own.start, Own.end))

\* Holds is false for a key id that the array holds only behind the node's
\* terminator, inside the range handed over.
C8_Witness ==
    /\ call = "Holds" /\ curRefs.kind = "node"
    /\ Own = [array |-> <<2, 1, 0, 3, 2, 0>>, start |-> 0, end |-> 6]
    /\ ret.key = stringAt(3) /\ ret.value = FALSE

\* The positions of a way's key list that hold the id of the key.
KeyPositions(keys, key) == {i \in 1..Len(keys) : keys[i] = PositionOf(key)}

\* C9: for a way or relation, Find(key) is the string of the value id at the
\* (first) position whose key id is the key's table position, and the empty
\* string when there is none or the key is not in the table; Holds(key) is true
\* exactly when there is such a position.
C9_TabularFind ==
    (call \in {"Holds", "Find"} /\ curRefs.kind \in {"way", "relation"}) =>
        LET at == KeyPositions(Own.keys, ret.key)
            found == PositionOf(ret.key) # NotFound /\ at # {}
            first == CHOOSE i \in at : \A j \in at : i <= j
        IN  IF call = "Holds" THEN ret.value = found
            ELSE ret.value = IF found THEN stringAt(Own.vals[first]) ELSE ""

\* Find returned the value of the second tag of a way.
C9_Witness ==
    /\ call = "Find" /\ curRefs.kind = "way"
    /\ Own = [keys |-> <<3, 1>>, vals |-> <<2, 3>>]
    /\ ret.key = stringAt(1) /\ ret.value = stringAt(3)

----------------------------------------------------------------------------
(* The query specification: shapefile layers indexed by bounding box, and  *)
(* up to MaxFeatures features of any kind, each queried against each layer.*)

\* The shapes, by id from 0, and their names; two shapes share a name.
Shapes == << {<<0, 0>>},
             {<<0, 0>>, <<1, 1>>},
             {<<0, 0>>, <<0, 1>>},
             {<<1, 0>>},
             {<<1, 0>>, <<0, 0>>, <<1, 1>>} >>

ShapeNames == (0 :> "park") @@ (1 :> "lake") @@ (2 :> "park") @@ (3 :> "wood")
              @@ (4 :> "town")

\* The index entry of a shape: its id under its bounding box.
BoundingBox(shape) ==
    LET xs == {p[1] : p \in shape}
        ys == {p[2] : p \in shape}
        lo(S) == CHOOSE m \in S : \A x \in S : m <= x
        hi(S) == CHOOSE m \in S : \A x \in S : x <= m
    IN  [lo |-> <<lo(xs), lo(ys)>>, hi |-> <<hi(xs), hi(ys)>>]

Entry(id) == [box |-> BoundingBox(Shapes[id + 1]), id |-> id]

Worlds ==
    {[indices |-> ("landuse" :> <<Entry(1), Entry(4), Entry(2), Entry(0)>>)
                  @@ ("water" :> <<Entry(1), Entry(3)>>),
      geometries |-> Shapes, names |-> ShapeNames],
     [indices |-> ("landuse" :> <<Entry(0), Entry(2)>>) @@ ("water" :> <<>>),
      geometries |-> Shapes, names |-> ShapeNames]}

QueryLayers == {"landuse", "water", "roads"}

InitQuery == InitWith({StoreOf({1, 2, 3})}, {FALSE}, Worlds)

NextQuery ==
    \/ begun < MaxFeatures /\ BeginNode({1}, OneDense, Coord)
    \/ begun < MaxFeatures /\ BeginWay({2}, OneTag, {<<1, 2>>, <<3, 1, 3>>, <<2, 3>>})
    \/ /\ begun < MaxFeatures
       /\ BeginRelation(OneTag, {<<1>>}, {<<>>}, MaxLifeRelations)
    \/ \E layer \in QueryLayers :
          curRefs.kind # "none" /\ thrown = NoThrow /\ FindIntersecting(layer)
    \/ \E layer \in QueryLayers :
          curRefs.kind # "none" /\ thrown = NoThrow /\ Intersects(layer)

SpecQuery == InitQuery /\ [][NextQuery]_vars

\* The points of the current feature, by what its begin call was given: the
\* node's place, or the segment between the way's first and last node.
SubjectPoints ==
    IF curRefs.kind = "node" THEN {curRefs.at}
    ELSE LET a == osmStore.nodes[curRefs.nodes[1]]
             b == osmStore.nodes[curRefs.nodes[Len(curRefs.nodes)]]
         IN  Segment(<<a[2], a[1]>>, <<b[2], b[1]>>)

\* The names of the shapes of a layer whose exact geometry meets the feature.
TrueNames(layerName) ==
    IF layerName \notin DOMAIN indices THEN {}
    ELSE {cachedGeometryNames[indices[layerName][i].id] :
            i \in {j \in 1..Len(indices[layerName]) :
                     cachedGeometries[indices[layerName][j].id + 1]
                         \cap SubjectPoints # {}}}

\* C10: for a node or a way, FindIntersecting(layer) returns exactly the names
\* of the indexed shapes whose exact geometry meets the feature, each once, and
\* so no name of a shape met by bounding box only; Intersects(layer) is true
\* exactly when there is such a shape.
C10_VerifiedNames ==
    (call \in {"FindIntersecting", "Intersects"} /\ curRefs.kind \in {"node", "way"}) =>
        IF call = "Intersects"
        THEN ret.value <=> TrueNames(ret.key) # {}
        ELSE /\ {ret.value[i] : i \in 1..Len(ret.value)} = TrueNames(ret.key)
             /\ \A i, j \in 1..Len(ret.value) : ret.value[i] = ret.value[j] => i = j

\* Three shapes of the layer meet the node's box, one of them the node itself,
\* and that one's name is all that is returned.
C10_Witness ==
    /\ call = "FindIntersecting" /\ curRefs.kind = "node"
    /\ ret.key = "landuse" /\ ret.value = <<"park">>
    /\ Len(RTreeQuery(indices["landuse"], Box(curRefs.at, curRefs.at))) = 3

\* C11: while the current feature is a relation, Intersects(layer) returns false
\* and FindIntersecting(layer) returns no name, for every layer and every index,
\* whatever end points an earlier node or way left in the context.
C11_RelationNeverMatches ==
    (call \in {"FindIntersecting", "Intersects"} /\ curRefs.kind = "relation") =>
        IF call = "Intersects" THEN ret.value = FALSE ELSE ret.value = <<>>

\* Intersects answered false for a relation begun after a node, while the end
\* points the node left behind lie on a shape of the layer asked for.
C11_Witness ==
    /\ call = "Intersects" /\ curRefs.kind = "relation"
    /\ ret.key = "landuse" /\ ret.value = FALSE
    /\ begun = 2 /\ lon1 = lon2 /\ latp1 = latp2
    /\ \E i \in 1..Len(indices["landuse"]) :
          GeomIntersects(indices["landuse"][i].id, {<<lon1, latp1>>})

----------------------------------------------------------------------------
(* The emission specification: the layers are defined first; then features *)
(* of each kind are begun and emitted to layers, known and unknown.        *)

EmitLayers   == {"roads", "water"}
EmitNames    == {"roads", "water", "rail"}
EmitNodeVecs == {<<1, 2>>, <<1, 3, 2>>, <<3, 1>>}
EmitOuters   == {<<1>>, <<2>>}

\* The callback of the current feature runs: its begin call returned.
InCallback ==
    /\ curRefs.kind # "none"
    /\ curRefs.kind = "way" =>
          /\ curRefs.nodes # <<>>
          /\ \A n \in setWayLookups(curRefs.nodes) : InStore(n)

\* Configuration comes before processing.
Configured == DOMAIN layerMap = EmitLayers

InitEmit == InitWith({StoreOf({1, 2})}, {FALSE}, {NoShapes})

NextEmit ==
    \/ begun = 0 /\ AddLayer(EmitLayers)
    \/ Configured /\ begun < MaxFeatures /\ BeginNode({1}, OneDense, {0})
    \/ Configured /\ begun < MaxFeatures /\ BeginWay({2}, OneTag, EmitNodeVecs)
    \/ /\ Configured /\ begun < MaxFeatures
       /\ BeginRelation(OneTag, EmitOuters, {<<>>}, MaxLifeRelations)
    \/ InCallback /\ Emit(EmitNames)
    \/ \E name \in EmitNames :
          InCallback /\ Len(outputs) < MaxOutputs /\ LayerAsCentroid(name)

SpecEmit == InitEmit /\ [][NextEmit]_vars

----------------------------------------------------------------------------
(* The attribute specification: nodes and ways emitted to the layers, and  *)
(* attributes of each type set on what was emitted, or on nothing.         *)

\* Most attributes followed on one feature's output objects.
MaxAttributes == 2

\* The attributes the output objects of the queue hold, all told.
RECURSIVE AttributesQueued(_)
AttributesQueued(oos) ==
    IF oos = <<>> THEN 0
    ELSE Cardinality(DOMAIN Head(oos).attributes) + AttributesQueued(Tail(oos))

AttributeCalls == {"Attribute", "AttributeNumeric", "AttributeBoolean"}

InitAttr == InitWith({StoreOf({1, 2})}, {FALSE}, {NoShapes})

NextAttr ==
    \/ begun = 0 /\ AddLayer(EmitLayers)
    \/ Configured /\ begun < MaxFeatures /\ BeginNode({1}, OneDense, {0})
    \/ Configured /\ begun < MaxFeatures /\ BeginWay({2}, OneTag, {<<1, 2>>})
    \/ Reset
    \/ \E name \in EmitLayers :
          InCallback /\ Len(outputs) < MaxOutputs /\ Layer(name, FALSE)
    \/ \E key \in {"name"} :
          InCallback /\ AttributesQueued(outputs) < MaxAttributes
                     /\ Attribute(key, "A1")
    \/ \E key \in {"name", "lanes"} :
          InCallback /\ AttributesQueued(outputs) < MaxAttributes
                     /\ AttributeNumeric(key, 2)
    \/ \E key \in {"lanes"} :
          InCallback /\ AttributesQueued(outputs) < MaxAttributes
                     /\ AttributeBoolean(key, TRUE)

SpecAttr == InitAttr /\ [][NextAttr]_vars

\* The type tag each attribute call gives its value.
TypeOf(name) ==
    IF name = "Attribute" THEN StringType
    ELSE IF name = "AttributeNumeric" THEN NumericType
    ELSE BooleanType

\* C12: an Attribute, AttributeNumeric or AttributeBoolean call on a queue that
\* holds output objects changes only the named attribute of the one emitted
\* last, setting or overwriting it with the value and the type of the call; the
\* length of the queue, every earlier output object and the other attributes,
\* layer, geometry type and id of the last one stay as they were.
C12_AttributeTargetsLast ==
    [][(call' \in AttributeCalls /\ outputs # <<>>) =>
          LET n   == Len(outputs)
              old == outputs[n]
              new == outputs'[n]
          IN  /\ thrown' = NoThrow
              /\ Len(outputs') = n
              /\ \A i \in 1..(n - 1) : outputs'[i] = outputs[i]
              /\ new.geomType = old.geomType /\ new.layer = old.layer
              /\ new.objectID = old.objectID
              /\ DOMAIN new.attributes = DOMAIN old.attributes \cup {ret'.key}
              /\ new.attributes[ret'.key].type = TypeOf(call')
              /\ new.attributes[ret'.key].value = ret'.value
              /\ \A k \in DOMAIN old.attributes \ {ret'.key} :
                     new.attributes[k] = old.attributes[k]]_vars

\* After two emissions, the second output object was given a numeric attribute
\* while the first kept the boolean one set on it earlier, and nothing else.
C12_Witness ==
    /\ call = "AttributeNumeric" /\ thrown = NoThrow
    /\ Len(outputs) = 2
    /\ DOMAIN outputs[1].attributes = {"lanes"}
    /\ outputs[1].attributes["lanes"].type = BooleanType
    /\ DOMAIN outputs[2].attributes = {"name"}
    /\ outputs[2].attributes["name"].type = NumericType
    /\ outputs[2].attributes["name"].value = ret.value

\* C13: an attribute call made while the queue is empty, and so any made right
\* after a begin call or a reset, is answered with an error and writes nothing:
\* the queue is empty afterwards, so no output object of an earlier feature is
\* written to.
C13_AttributeBeforeEmission ==
    [][(call' \in AttributeCalls /\ (outputs = <<>> \/ call \in BeginCalls \cup {"reset"})) =>
          /\ thrown' = UsageError(ret'.key)
          /\ outputs' = <<>>]_vars

\* An attribute call failed on the empty queue of a second feature, whose begin
\* call had found an output object of the first in the queue.
C13_Witness ==
    /\ call \in AttributeCalls /\ thrown = UsageError(ret.key)
    /\ outputs = <<>>
    /\ begun = 2 /\ curRefs.kind = "way"

EmitCalls == {"Layer", "LayerAsCentroid"}

\* The step appended one output object, bound to the layer index of the name
\* given and without attributes, and left the rest of the queue as it was.
AppendedOne ==
    /\ Len(outputs') = Len(outputs) + 1
    /\ SubSeq(outputs', 1, Len(outputs)) = outputs
    /\ outputs'[Len(outputs')].layer = layerMap[ret'.key]
    /\ DOMAIN outputs'[Len(outputs')].attributes = {}

----------------------------------------------------------------------------
(* The layer specification: layers of distinct names defined one after the *)
(* other, each in a group of its own or written to a layer defined before. *)

LayerNames == {"roads", "water", "rail", "land"}

\* Most layers defined in one run.
MaxLayers == 3

InitLayers == InitWith({StoreOf({1, 2})}, {FALSE}, {NoShapes})

NextLayers ==
    \E name \in LayerNames \ DOMAIN layerMap, writeTo \in {""} \cup DOMAIN layerMap :
        /\ Len(layers) < MaxLayers
        /\ addLayer(name, 0, 14, 0, 0, 0, 0, writeTo)

SpecLayers == InitLayers /\ [][NextLayers]_vars

\* The indices a group of the layer order holds.
Members(g) == {layerOrder[g][i] : i \in 1..Len(layerOrder[g])}

\* The groups of the layer order that hold a layer index.
GroupsWith(layerNum) == {g \in 1..Len(layerOrder) : layerNum \in Members(g)}

----------------------------------------------------------------------------
(* The metadata specification: layers defined, attribute types recorded    *)
(* for them, and the vector_layers document produced at any time.          *)

\* Most distinct recordings of attribute types in one run.
MaxRecords == 3

\* The attribute keys recorded, each with the type its values have.
MetadataKeys == ("name" :> StringType) @@ ("lanes" :> NumericType)
                @@ ("oneway" :> BooleanType)

InitMetadata == InitWith({StoreOf({1, 2})}, {FALSE}, {NoShapes})

NextMetadata ==
    \/ AddLayer(EmitLayers)
    \/ \E layer \in 0..(Cardinality(EmitLayers) - 1), key \in DOMAIN MetadataKeys :
          /\ \/ Cardinality(recorded) < MaxRecords
             \/ <<layer, key, MetadataKeys[key]>> \in recorded
          /\ setVectorLayerMetadata(layer, key, MetadataKeys[key])
    \/ serialiseLayerJSON

SpecMetadata == InitMetadata /\ [][NextMetadata]_vars

\* The keys recorded for a layer, and the type recorded for one of them.
KeysRecorded(layer) == {r[2] : r \in {x \in recorded : x[1] = layer}}
TypeRecorded(layer, key) ==
    (CHOOSE r \in recorded : r[1] = layer /\ r[2] = key)[3]

----------------------------------------------------------------------------
(* Further properties of the lifecycle.                                    *)

\* C17: reset can be called in any state, before the first begin call too; it
\* empties the output queue, lowers the three flags and changes nothing else of
\* the context: id and identity flags, end points, reference lists, cached
\* geometries, tag members, the relation counter and the layer registry stay;
\* and a reset that follows a reset changes nothing at all.
C17_ResetIdempotent ==
    [][call' = "reset" =>
          /\ thrown' = NoThrow
          /\ outputs' = <<>>
          /\ ~linestringInited' /\ ~polygonInited' /\ ~multiPolygonInited'
          /\ UNCHANGED <<identityVars, newWayID, locationVars, nodeVec, outerWayVec,
                         innerWayVec, cacheVars, tableVars, denseVars, tabularVars,
                         registryVars, osmStore, spatialVars>>
          /\ call = "reset" => UNCHANGED <<outputs, initedVars>>]_vars

\* reset ran before any begin call, on flags that construction had left set.
C17_Witness ==
    /\ call = "reset" /\ begun = 0 /\ curRefs.kind = "none"
    /\ before = [queued |-> 0, inited |-> <<TRUE, TRUE, TRUE>>]
    /\ ~linestringInited /\ ~polygonInited /\ ~multiPolygonInited

\* C19: a setWay that fails with the missing-node error leaves the context half
\* updated: the queue is emptied and the three flags lowered, id, identity flags
\* and node list are those of the failing way, while the end points, the
\* key/value arrays and the tag length are still those of the feature before;
\* the store is as it was.
C19_FailedWayHalfUpdated ==
    [][(call' = "setWay" /\ thrown' # NoThrow) =>
          /\ thrown' = MissingNode(osmID')
          /\ outputs' = <<>>
          /\ ~linestringInited' /\ ~polygonInited' /\ ~multiPolygonInited'
          /\ osmID' \in wayIds' /\ isWay' /\ ~isRelation'
          /\ curRefs'.kind = "way" /\ nodeVec' = curRefs'.nodes
          /\ UNCHANGED <<locationVars, tabularVars, osmStore>>]_vars

\* A way failed after a node whose callback had queued an output object and
\* built geometry: the end points are still the node's, the tags not the way's.
C19_Witness ==
    /\ call = "setWay" /\ thrown = MissingNode(osmID)
    /\ before.queued = 1 /\ before.inited[1]
    /\ outputs = <<>> /\ ~linestringInited
    /\ nodeVec = <<2, 3>>
    /\ <<lon1, latp1, lon2, latp2>> = <<1, 1, 1, 1>>
    /\ keysPtr = <<>>

\* C20: setNode sets both end points to the node's co-ordinates, a setWay that
\* returns sets them to the stored co-ordinates of the first and the last node
\* of the list, and setRelation leaves all four as they were: those of the node
\* or way before it, or what construction left there.
C20_RelationKeepsEndpoints ==
    [][/\ call' = "setNode" =>
            /\ <<lon1', latp1'>> = curRefs'.at
            /\ <<lon2', latp2'>> = curRefs'.at
       /\ (call' = "setWay" /\ thrown' = NoThrow /\ nodeVec' # <<>>) =>
            /\ <<latp1', lon1'>> = osmStore.nodes[nodeVec'[1]]
            /\ <<latp2', lon2'>> = osmStore.nodes[nodeVec'[Len(nodeVec')]]
       /\ call' = "setRelation" => UNCHANGED locationVars]_vars

\* A relation begun first of all: the end points are what construction left.
C20_Witness ==
    /\ call = "setRelation" /\ begun = 1
    /\ <<lon1, latp1, lon2, latp2>> = <<1, 0, 0, 1>>

----------------------------------------------------------------------------
(* The processing specification: configuration (layers, attribute types,   *)
(* the block's string table), then features of each kind, each with a      *)
(* callback that makes every call there is in one order: queries or an     *)
(* accessor first, then an emission and its attribute, then a centroid     *)
(* and its attributes, any of them left out.                               *)

ProcessWorld == CHOOSE w \in Worlds : Len(w.indices["water"]) = 2

InitProcess == InitWith({StoreOf({1, 2})}, {FALSE}, {ProcessWorld})

\* The callback has just been entered: nothing built, nothing emitted yet.
Fresh ==
    /\ InCallback /\ outputs = <<>>
    /\ ~linestringInited /\ ~polygonInited /\ ~multiPolygonInited

NextProcess ==
    \/ begun = 0 /\ AddLayer(EmitLayers)
    \/ begun = 0 /\ recorded = {} /\ setVectorLayerMetadata(0, "name", StringType)
    \/ begun = 0 /\ stringTable = <<>>
                 /\ readStringTable(<<"", "highway", "primary", "name">>)
    \/ /\ Configured /\ stringTable # <<>> /\ begun < MaxFeatures
       /\ BeginNode({1}, OneDense, {0})
    \/ /\ Configured /\ stringTable # <<>> /\ begun < MaxFeatures
       /\ BeginWay({2}, OneTag, {<<1, 2>>})
    \/ /\ Configured /\ stringTable # <<>> /\ begun < MaxFeatures
       /\ BeginRelation(OneTag, {<<1>>}, {<<>>}, MaxLifeRelations)
    \/ begun > 0 /\ outputs # <<>> /\ Reset
    \/ Fresh /\ Holds("highway")
    \/ Fresh /\ Find("highway")
    \/ Fresh /\ FindIntersecting("water")
    \/ Fresh /\ Intersects("water")
    \/ Fresh /\ linestring
    \/ Fresh /\ polygon
    \/ Fresh /\ multiPolygon
    \/ InCallback /\ outputs = <<>> /\ Layer("water", TRUE)
    \/ InCallback /\ Len(outputs) = 1 /\ AttributesQueued(outputs) = 0
                  /\ Attribute("name", "A1")
    \/ InCallback /\ Len(outputs) = 1 /\ LayerAsCentroid("roads")
    \/ /\ InCallback /\ Len(outputs) = 2
       /\ "lanes" \notin DOMAIN outputs[2].attributes
       /\ AttributeNumeric("lanes", 2)
    \/ /\ InCallback /\ Len(outputs) = 2
       /\ "oneway" \notin DOMAIN outputs[2].attributes
       /\ AttributeBoolean("oneway", TRUE)

SpecProcess == InitProcess /\ [][NextProcess]_vars

\* The calls made for a feature: every call but construction and configuration.
ConfigurationCalls == {"OSMObject", "addLayer", "setVectorLayerMetadata",
                       "readStringTable", "serialiseLayerJSON"}

====
